---- MODULE Spec2Model ----
(***************************************************************************)
(* Location games with reputation: the equilibrium candidate builders and  *)
(* the equilibrium verifiers for n = 2, 3, 4 and n >= 5 players, with the  *)
(* quadratic cost gamma(d) = c * d^2.                                      *)
(*                                                                         *)
(* Python floats are modelled as exact rationals <<num, den>> in lowest    *)
(* terms with den > 0; Python lists are functions on 0 .. n-1, so that the *)
(* index expressions are those of the source.                              *)
(***************************************************************************)
EXTENDS Integers, Sequences, FiniteSets, TLC

\* ------------------------------------------------------------------------
\* Bounds of the model.

\* Reputations are drawn from { k / GridDen : k \in 0 .. GridDen }.
GridDen == 4

\* The general game is played with 5 .. MaxPlayers players; its profiles are
\* drawn in ascending order from the reputations above, and in every order
\* from the coarser { k / GridDenN : k \in 0 .. GridDenN }.
MaxPlayers == 5
GridDenN == 1

\* Cost coefficients are 2^k / 4 for k \in 0 .. MaxCostExp, so that
\* delta = 1 / (4 * c) goes from 1 down to 1 / 2^MaxCostExp.
MaxCostExp == 3

\* ------------------------------------------------------------------------
\* Exact arithmetic.

Abs(a) == IF a < 0 THEN -a ELSE a

RECURSIVE GCD(_, _)
GCD(a, b) == IF b = 0 THEN a ELSE GCD(b, a % b)

\* The rational n / d (d # 0) in lowest terms with a positive denominator.
Rat(n, d) ==
    LET g == GCD(Abs(n), Abs(d))
        s == IF d < 0 THEN -1 ELSE 1
    IN  << (s * n) \div g, (s * d) \div g >>

Num(k) == << k, 1 >>
Zero == Num(0)
One == Num(1)
Half == Rat(1, 2)

Add(a, b) == Rat(a[1] * b[2] + b[1] * a[2], a[2] * b[2])
Sub(a, b) == Rat(a[1] * b[2] - b[1] * a[2], a[2] * b[2])
Mul(a, b) == Rat(a[1] * b[1], a[2] * b[2])
Div(a, b) == Rat(a[1] * b[2], a[2] * b[1])
Sq(a) == Mul(a, a)
Lt(a, b) == a[1] * b[2] < b[1] * a[2]
Le(a, b) == a[1] * b[2] <= b[1] * a[2]
Gt(a, b) == Lt(b, a)
Ge(a, b) == Le(b, a)

\* ------------------------------------------------------------------------
\* Python values returned by a call.

NoList == [i \in {} |-> Zero]

StrRet(s) == [type |-> "str", str |-> s, num |-> Zero, list |-> NoList]
FloatRet(q) == [type |-> "float", str |-> "", num |-> q, list |-> NoList]
ListRet(f) == [type |-> "list", str |-> "", num |-> Zero, list |-> f]
Raise(e) == [type |-> "raise", str |-> e, num |-> Zero, list |-> NoList]
NoRet == [type |-> "none", str |-> "", num |-> Zero, list |-> NoList]

\* len(L) of a list L.
len(L) == Cardinality(DOMAIN L)

\* A list literal.
List2(a, b) == [i \in 0 .. 1 |-> IF i = 0 THEN a ELSE b]
List3(a, b, c) == [i \in 0 .. 2 |-> IF i = 0 THEN a ELSE IF i = 1 THEN b ELSE c]
List4(a, b, c, d) ==
    [i \in 0 .. 3 |-> IF i = 0 THEN a ELSE IF i = 1 THEN b ELSE IF i = 2 THEN c ELSE d]

\* Variant: the cost without the square, c * |x - r|.
gamma_linear(c, x, r) ==
    IF Lt(x, r) THEN Mul(c, Sub(r, x)) ELSE Mul(c, Sub(x, r))

\* The relocation cost gamma(d) = c * d^2 of a player located at x whose
\* reputation is r: c * ((x - r)**2).
gamma(c, x, r) == Mul(c, Sq(Sub(x, r)))

\* One comparison of a verifier: player (index in the sorted profile) earns
\* payoff where it is and alt after the deviation; kind and j name the gap.
Deviation(player, kind, j, alt, payoff) ==
    [player |-> player, kind |-> kind, j |-> j, alt |-> alt, payoff |-> payoff]

\* ------------------------------------------------------------------------
\* delta_distance(c): 1 / (4 * c). The division raises ZeroDivisionError
\* when 4 * c is 0; no other value of c is rejected.

\* Variant: delta_distance with a check of its precondition c > 0.
delta_distance_checked(c) ==
    IF Le(c, Zero) THEN Raise("ZeroDivisionError")
    ELSE FloatRet(Div(One, Mul(Num(4), c)))

\* Variant: 1 / (4 + c).
delta_distance_plus(c) ==
    IF Add(Num(4), c) = Zero THEN Raise("ZeroDivisionError")
    ELSE FloatRet(Div(One, Add(Num(4), c)))

\* Variant: delta_distance rejecting a distance above one half.
delta_distance_bounded(c) ==
    IF Mul(Num(4), c) = Zero THEN Raise("ZeroDivisionError")
    ELSE IF Gt(Div(One, Mul(Num(4), c)), Half) THEN Raise("ValueError")
    ELSE FloatRet(Div(One, Mul(Num(4), c)))

\* The outcome of the call delta_distance(c).
delta_distance_call(c) ==
    IF Mul(Num(4), c) = Zero THEN Raise("ZeroDivisionError")
    ELSE FloatRet(Div(One, Mul(Num(4), c)))

\* The value delta_distance(c) inside the callers, which pass c # 0.
delta_distance(c) == delta_distance_call(c).num

\* The outcome of a function that calls delta_distance(c) and would return r:
\* an exception raised by delta_distance is not caught, it ends the caller.
propagate(c, r) ==
    IF delta_distance_call(c).type = "raise" THEN delta_distance_call(c) ELSE r

\* ------------------------------------------------------------------------
\* sorted(R): the elements of R in ascending order, in a fresh list.

\* Variant: the list is left in the order of the caller.
sorted_identity(R) == R

\* Variant: the caller's list after R.sort(), which sorts in place.
sorted_argument_inplace(R) ==
    LET below(v) == Cardinality({k \in DOMAIN R : Lt(R[k], v)})
        upto(v) == Cardinality({k \in DOMAIN R : Le(R[k], v)})
    IN  [i \in DOMAIN R |->
            LET k == CHOOSE k \in DOMAIN R : below(R[k]) <= i /\ i < upto(R[k])
            IN  R[k]]

\* The caller's list after R = sorted(R) in the callee: sorted builds a new
\* list, the assignment rebinds the callee's local name, and the list the
\* caller passed is left as it was.
sorted_argument(R) == R

sorted(R) ==
    LET below(v) == Cardinality({k \in DOMAIN R : Lt(R[k], v)})
        upto(v) == Cardinality({k \in DOMAIN R : Le(R[k], v)})
    IN  [i \in DOMAIN R |->
            LET k == CHOOSE k \in DOMAIN R : below(R[k]) <= i /\ i < upto(R[k])
            IN  R[k]]

\* ------------------------------------------------------------------------
\* Two players.

\* The candidate of equilibrium_2_players: X = [0,0], assigned in the
\* separated branch only.
X_2_players(R, c) ==
    LET delta == delta_distance(c)
    IN  IF Lt(Sub(R[1], R[0]), Mul(Num(2), delta))
        THEN List2(Zero, Zero)
        ELSE List2(Add(R[0], delta), Sub(R[1], delta))

\* The two comparisons of the separated branch: for each player, the payoff
\* of the deviation past the rival (alt) and the current payoff.
Deviations_2_players(R, X, c) ==
    { [player |-> 0, kind |-> "right_of_n", j |-> 1,
       alt |-> Sub(Sub(One, X[1]), Mul(c, Sq(Sub(X[1], R[0])))),
       payoff |-> Sub(Div(Add(X[0], X[1]), Num(2)), Mul(c, Sq(Sub(X[0], R[0]))))],
      [player |-> 1, kind |-> "left_of_1", j |-> 0,
       alt |-> Sub(X[0], Mul(c, Sq(Sub(X[0], R[1])))),
       payoff |-> Sub(Sub(One, Div(Add(X[0], X[1]), Num(2))),
                      Mul(c, Sq(Sub(X[1], R[1]))))] }

\* Variant: equilibrium_2_players with <= where the source has <.
verdict_2_players_weak(R, c) ==
    LET delta == delta_distance(c)
        X == X_2_players(R, c)
    IN  IF Lt(Sub(R[1], R[0]), Mul(Num(2), delta))
        THEN IF Le(Sub(R[1], delta), Half) /\ Le(Half, Add(R[0], delta))
             THEN "Eq" ELSE "No Eq"
        ELSE IF \A d \in Deviations_2_players(R, X, c) : Le(d.alt, d.payoff)
             THEN "Eq" ELSE "No Eq"

\* equilibrium_2_players on the sorted profile.
verdict_2_players(R, c) ==
    LET delta == delta_distance(c)
        X == X_2_players(R, c)
    IN  IF Lt(Sub(R[1], R[0]), Mul(Num(2), delta))
        THEN IF Lt(Sub(R[1], delta), Half) /\ Lt(Half, Add(R[0], delta))
             THEN "Eq" ELSE "No Eq"
        ELSE IF \A d \in Deviations_2_players(R, X, c) : Lt(d.alt, d.payoff)
             THEN "Eq" ELSE "No Eq"

equilibrium_2_players(R, c) == verdict_2_players(sorted(R), c)

\* The candidate of equilibrium_2_players_asym.
X_2_players_asym(R, c1, c2) ==
    LET delta1 == delta_distance(c1)
        delta2 == delta_distance(c2)
    IN  IF Lt(Sub(R[1], R[0]), Add(delta1, delta2))
        THEN List2(Zero, Zero)
        ELSE List2(Add(R[0], delta1), Sub(R[1], delta2))

Deviations_2_players_asym(R, X, c1, c2) ==
    { [player |-> 0, kind |-> "right_of_n", j |-> 1,
       alt |-> Sub(Sub(One, X[1]), Mul(c1, Sq(Sub(X[1], R[0])))),
       payoff |-> Sub(Div(Add(X[0], X[1]), Num(2)), Mul(c1, Sq(Sub(X[0], R[0]))))],
      [player |-> 1, kind |-> "left_of_1", j |-> 0,
       alt |-> Sub(X[0], Mul(c2, Sq(Sub(X[0], R[1])))),
       payoff |-> Sub(Sub(One, Div(Add(X[0], X[1]), Num(2))),
                      Mul(c2, Sq(Sub(X[1], R[1]))))] }

\* Variant: equilibrium_2_players_asym with <= where the source has <.
verdict_2_players_asym_weak(R, c1, c2) ==
    LET delta1 == delta_distance(c1)
        delta2 == delta_distance(c2)
        X == X_2_players_asym(R, c1, c2)
    IN  IF Lt(Sub(R[1], R[0]), Add(delta1, delta2))
        THEN IF Le(Sub(R[1], delta2), Half) /\ Le(Half, Add(R[0], delta1))
             THEN "Eq" ELSE "No Eq"
        ELSE IF \A d \in Deviations_2_players_asym(R, X, c1, c2) : Le(d.alt, d.payoff)
             THEN "Eq" ELSE "No Eq"

\* equilibrium_2_players_asym on the sorted profile.
verdict_2_players_asym(R, c1, c2) ==
    LET delta1 == delta_distance(c1)
        delta2 == delta_distance(c2)
        X == X_2_players_asym(R, c1, c2)
    IN  IF Lt(Sub(R[1], R[0]), Add(delta1, delta2))
        THEN IF Lt(Sub(R[1], delta2), Half) /\ Lt(Half, Add(R[0], delta1))
             THEN "Eq" ELSE "No Eq"
        ELSE IF \A d \in Deviations_2_players_asym(R, X, c1, c2) : Lt(d.alt, d.payoff)
             THEN "Eq" ELSE "No Eq"

equilibrium_2_players_asym(R, c1, c2) == verdict_2_players_asym(sorted(R), c1, c2)

\* ------------------------------------------------------------------------
\* Three players.

\* Variant: the last branch returns the initial X = [0,0,0], as the 4-player
\* builder would.
Eq_candidate_3_players_fallthrough(R, c) ==
    LET delta == delta_distance(c)
    IN  IF Lt(Add(R[0], delta), R[1]) /\ Gt(Sub(R[2], delta), R[1])
        THEN ListRet(List3(Add(R[0], delta), R[1], Sub(R[2], delta)))
        ELSE IF Ge(Add(R[0], delta), R[1]) /\ Gt(Sub(R[2], delta), R[1])
        THEN ListRet(List3(Div(Sub(R[2], delta), Num(3)),
                           Div(Sub(R[2], delta), Num(3)),
                           Sub(R[2], delta)))
        ELSE IF Le(Sub(R[2], delta), R[1]) /\ Lt(Add(R[0], delta), R[1])
        THEN ListRet(List3(Add(R[0], delta),
                           Div(Add(Add(R[0], delta), Num(2)), Num(3)),
                           Div(Add(Add(R[0], delta), Num(2)), Num(3))))
        ELSE ListRet(List3(Zero, Zero, Zero))

\* Eq_candidate_3_players(R, c): the candidate, or the string "No Eq".
Eq_candidate_3_players(R, c) ==
    LET delta == delta_distance(c)
    IN  IF Lt(Add(R[0], delta), R[1]) /\ Gt(Sub(R[2], delta), R[1])
        THEN ListRet(List3(Add(R[0], delta), R[1], Sub(R[2], delta)))
        ELSE IF Ge(Add(R[0], delta), R[1]) /\ Gt(Sub(R[2], delta), R[1])
        THEN ListRet(List3(Div(Sub(R[2], delta), Num(3)),
                           Div(Sub(R[2], delta), Num(3)),
                           Sub(R[2], delta)))
        ELSE IF Le(Sub(R[2], delta), R[1]) /\ Lt(Add(R[0], delta), R[1])
        THEN ListRet(List3(Add(R[0], delta),
                           Div(Add(Add(R[0], delta), Num(2)), Num(3)),
                           Div(Add(Add(R[0], delta), Num(2)), Num(3))))
        ELSE StrRet("No Eq")

\* The two boundary tests of equilibrium_3_players.
BoundaryFails_3_players(R, X, c) ==
    LET delta == delta_distance(c)
    IN  \/ X[0] = X[1] /\ (Lt(X[0], R[1]) \/ Gt(X[0], Add(R[0], delta)))
        \/ X[1] = X[2] /\ (Lt(X[2], Sub(R[2], delta)) \/ Lt(R[1], X[2]))

\* Every comparison "alt > payoff" equilibrium_3_players makes when none of
\* them returns early.
Deviations_3_players(R, X, c) ==
    LET p1 == Sub(Div(Add(X[0], X[1]), Num(2)), gamma(c, X[0], R[0]))
        p12(r) == Sub(Div(Add(X[0], X[2]), Num(4)), gamma(c, X[0], R[r]))
        p3 == Sub(Sub(One, Div(Add(X[2], X[1]), Num(2))), gamma(c, X[2], R[2]))
        p32(r) == Sub(Sub(Half, Div(Add(X[2], X[0]), Num(4))), gamma(c, X[2], R[r]))
        p2 == Div(Sub(X[2], X[0]), Num(2))
        right(r) == Sub(Sub(One, X[2]), gamma(c, X[2], R[r]))
        left(r) == Sub(X[0], gamma(c, X[0], R[r]))
    IN  (IF X[0] # X[1]
         THEN {Deviation(0, "right_of_n", 2, right(0), p1)}
              \cup (IF X[1] # X[2]
                    THEN {Deviation(0, "right_gap", 1,
                              Sub(Div(Sub(X[2], X[1]), Num(2)), gamma(c, X[1], R[0])), p1)}
                    ELSE {})
         ELSE {Deviation(0, "right_of_n", 2, right(0), p12(0)),
               Deviation(1, "right_of_n", 2, right(1), p12(1))})
        \cup
        (IF X[2] # X[1]
         THEN {Deviation(2, "left_of_1", 0, left(2), p3)}
              \cup (IF X[1] # X[0]
                    THEN {Deviation(2, "left_gap", 1,
                              Sub(Div(Sub(X[1], X[0]), Num(2)), gamma(c, X[1], R[2])), p3)}
                    ELSE {})
         ELSE {Deviation(2, "left_of_1", 0, left(2), p32(2)),
               Deviation(1, "left_of_1", 0, left(1), p32(1))})
        \cup
        (IF X[0] # X[1] /\ X[1] # X[2]
         THEN {Deviation(1, "left_of_1", 0, left(1), p2),
               Deviation(1, "right_of_n", 2, right(1), p2)}
         ELSE {})

\* equilibrium_3_players on the sorted profile.
verdict_3_players(R, c) ==
    LET cand == Eq_candidate_3_players(R, c)
        X == cand.list
    IN  IF cand.type = "str" THEN "No Eq"
        ELSE IF BoundaryFails_3_players(R, X, c) THEN "No Eq"
        ELSE IF \E d \in Deviations_3_players(R, X, c) : Gt(d.alt, d.payoff)
        THEN "No Eq"
        ELSE "Eq"

equilibrium_3_players(R, c) == verdict_3_players(sorted(R), c)

\* ------------------------------------------------------------------------
\* Four players.

\* Variant: with both ends clustered, the locations of the general builder
\* in place of 0.25 and 0.75.
Eq_candidate_4_players_general(R, c) ==
    LET delta == delta_distance(c)
    IN  IF Lt(Add(R[0], delta), R[1]) /\ Gt(Sub(R[3], delta), R[2])
        THEN List4(Add(R[0], delta), R[1], R[2], Sub(R[3], delta))
        ELSE IF Ge(Add(R[0], delta), R[1]) /\ Gt(Sub(R[3], delta), R[2])
        THEN List4(Div(R[2], Num(3)), Div(R[2], Num(3)), R[2], Sub(R[3], delta))
        ELSE IF Lt(Add(R[0], delta), R[1]) /\ Le(Sub(R[3], delta), R[2])
        THEN List4(Add(R[0], delta), R[1],
                   Div(Add(R[1], Num(2)), Num(3)), Div(Add(R[1], Num(2)), Num(3)))
        ELSE IF Ge(Add(R[0], delta), R[1]) /\ Le(Sub(R[3], delta), R[2])
        THEN List4(Div(R[2], Num(3)), Div(R[2], Num(3)),
                   Div(Add(R[1], Num(2)), Num(3)), Div(Add(R[1], Num(2)), Num(3)))
        ELSE List4(Zero, Zero, Zero, Zero)

\* Eq_candidate_4_players(R, c).
Eq_candidate_4_players(R, c) ==
    LET delta == delta_distance(c)
    IN  IF Lt(Add(R[0], delta), R[1]) /\ Gt(Sub(R[3], delta), R[2])
        THEN List4(Add(R[0], delta), R[1], R[2], Sub(R[3], delta))
        ELSE IF Ge(Add(R[0], delta), R[1]) /\ Gt(Sub(R[3], delta), R[2])
        THEN List4(Div(R[2], Num(3)), Div(R[2], Num(3)), R[2], Sub(R[3], delta))
        ELSE IF Lt(Add(R[0], delta), R[1]) /\ Le(Sub(R[3], delta), R[2])
        THEN List4(Add(R[0], delta), R[1],
                   Div(Add(R[1], Num(2)), Num(3)), Div(Add(R[1], Num(2)), Num(3)))
        ELSE IF Ge(Add(R[0], delta), R[1]) /\ Le(Sub(R[3], delta), R[2])
        THEN List4(Rat(1, 4), Rat(1, 4), Rat(3, 4), Rat(3, 4))
        ELSE List4(Zero, Zero, Zero, Zero)

\* Variant: the boundary tests without the comparisons against R[1] and
\* R[2].
BoundaryFails_4_players_deltaonly(R, X, c) ==
    LET delta == delta_distance(c)
    IN  \/ X[0] = X[1] /\ Gt(X[0], Add(R[0], delta))
        \/ X[2] = X[3] /\ Lt(X[3], Sub(R[3], delta))

\* The two boundary tests of equilibrium_4_players.
BoundaryFails_4_players(R, X, c) ==
    LET delta == delta_distance(c)
    IN  \/ X[0] = X[1] /\ (Lt(X[0], R[1]) \/ Gt(X[0], Add(R[0], delta)))
        \/ X[2] = X[3] /\ (Lt(X[3], Sub(R[3], delta)) \/ Lt(R[2], X[3]))

\* Every comparison "alt > payoff" equilibrium_4_players makes after its
\* early return, when none of them returns early.
Deviations_4_players(R, X, c) ==
    LET p1 == Sub(Div(Add(X[0], X[1]), Num(2)), gamma(c, X[0], R[0]))
        p12(r) == Sub(Div(Add(X[0], X[2]), Num(4)), gamma(c, X[0], R[r]))
        p4 == Sub(Sub(One, Div(Add(X[3], X[2]), Num(2))), gamma(c, X[3], R[3]))
        p43(r) == Sub(Sub(Half, Div(Add(X[3], X[1]), Num(4))), gamma(c, X[3], R[r]))
        right(r) == Sub(Sub(One, X[3]), gamma(c, X[3], R[r]))
        left(r) == Sub(X[0], gamma(c, X[0], R[r]))
        rightgap(j, r) == Sub(Div(Sub(X[j + 1], X[j]), Num(2)), gamma(c, X[j], R[r]))
        leftgap(j, r) == Sub(Div(Sub(X[j], X[j - 1]), Num(2)), gamma(c, X[j], R[r]))
    IN  (IF X[0] # X[1]
         THEN {Deviation(0, "right_of_n", 3, right(0), p1)}
              \cup {Deviation(0, "right_gap", j, rightgap(j, 0), p1) :
                        j \in {k \in 1 .. 2 : X[k] # X[k + 1]}}
         ELSE {Deviation(r, "right_of_n", 3, right(r), p12(r)) : r \in 0 .. 1}
              \cup (IF X[2] # X[3]
                    THEN {Deviation(r, "right_gap", 2, rightgap(2, r), p12(r)) :
                              r \in 0 .. 1}
                    ELSE {}))
        \cup
        (IF X[3] # X[2]
         THEN {Deviation(3, "left_of_1", 0, left(3), p4)}
              \cup {Deviation(3, "left_gap", j, leftgap(j, 3), p4) :
                        j \in {k \in 1 .. 2 : X[k] # X[k - 1]}}
         ELSE {Deviation(r, "left_of_1", 0, left(r), p43(r)) : r \in 2 .. 3}
              \cup (IF X[1] # X[0]
                    THEN {Deviation(r, "left_gap", 1, leftgap(1, r), p43(r)) :
                              r \in 2 .. 3}
                    ELSE {}))
        \cup
        UNION { LET payoff == Div(Sub(X[p + 1], X[p - 1]), Num(2))
                IN  {Deviation(p, "left_of_1", 0, left(p), payoff),
                     Deviation(p, "right_of_n", 3, right(p), payoff)}
                    \cup {Deviation(p, "left_gap", j, leftgap(j, p), payoff) :
                              j \in {k \in 1 .. p - 1 : X[k] # X[k - 1]}}
                    \cup {Deviation(p, "right_gap", j, rightgap(j, p), payoff) :
                              j \in {k \in p + 1 .. 2 : X[k] # X[k + 1]}}
                : p \in {q \in 1 .. 2 : ~(X[q - 1] = X[q] \/ X[q] = X[q + 1])} }

\* equilibrium_4_players on the sorted profile.
verdict_4_players(R, c) ==
    LET X == Eq_candidate_4_players(R, c)
    IN  IF BoundaryFails_4_players(R, X, c) THEN "No Eq"
        ELSE IF X = List4(Rat(1, 4), Rat(1, 4), Rat(3, 4), Rat(3, 4)) THEN "Eq"
        ELSE IF \E d \in Deviations_4_players(R, X, c) : Gt(d.alt, d.payoff)
        THEN "No Eq"
        ELSE "Eq"

equilibrium_4_players(R, c) == verdict_4_players(sorted(R), c)

\* ------------------------------------------------------------------------
\* n >= 5 players.

\* Variant: the reputation of the second player where the source takes the
\* third.
LeftCluster_n_players_next(R) == Div(R[1], Num(3))

\* The location of the two leftmost players when they cluster: R[2] / 3.
LeftCluster_n_players(R) == Div(R[2], Num(3))

\* Variant: the rule of the left end applied at the right end.
RightCluster_n_players_as_left(R) == Div(R[len(R) - 3], Num(3))

\* Variant: the reputation of the player before the last where the source
\* takes the one before.
RightCluster_n_players_next(R) == Div(Add(Num(2), R[len(R) - 2]), Num(3))

\* Variant: the division by 3 is missing.
RightCluster_n_players_undivided(R) == Add(Num(2), R[len(R) - 3])

\* The location of the two rightmost players when they cluster:
\* (2 + R[nb_players - 3]) / 3.
RightCluster_n_players(R) == Div(Add(Num(2), R[len(R) - 3]), Num(3))

\* Variant: every interior player is placed at its reputation, without the
\* test X[i] == 0.
FillInterior_n_players_all(X, R) ==
    [i \in DOMAIN X |-> IF i \in 1 .. len(X) - 2 THEN R[i] ELSE X[i]]

\* The last loop of Eq_candidate_n_players: each interior player whose
\* location is still 0 is placed at its reputation.
FillInterior_n_players(X, R) ==
    [i \in DOMAIN X |->
        IF i \in 1 .. len(X) - 2 /\ X[i] = Zero THEN R[i] ELSE X[i]]

\* Eq_candidate_n_players(R, c).
Eq_candidate_n_players(R, c) ==
    LET nb_players == len(R)
        delta == delta_distance(c)
        X0 == [i \in 0 .. nb_players - 1 |-> Zero]
        X1 == IF Lt(Add(R[0], delta), R[1])
              THEN [X0 EXCEPT ![0] = Add(R[0], delta)]
              ELSE IF Ge(Add(R[0], delta), R[1])
              THEN [X0 EXCEPT ![0] = LeftCluster_n_players(R),
                              ![1] = LeftCluster_n_players(R)]
              ELSE X0
        X2 == IF Gt(Sub(R[nb_players - 1], delta), R[nb_players - 2])
              THEN [X1 EXCEPT ![nb_players - 1] = Sub(R[nb_players - 1], delta)]
              ELSE IF Le(Sub(R[nb_players - 1], delta), R[nb_players - 2])
              THEN [X1 EXCEPT ![nb_players - 1] = RightCluster_n_players(R),
                              ![nb_players - 2] = RightCluster_n_players(R)]
              ELSE X1
    IN  FillInterior_n_players(X2, R)

\* Variant: the boundary tests without the comparisons against delta.
BoundaryFails_n_players_nodelta(R, X, c) ==
    LET nb_players == len(X)
    IN  \/ X[0] = X[1] /\ Lt(X[0], R[1])
        \/ X[nb_players - 2] = X[nb_players - 1]
           /\ Lt(R[nb_players - 2], X[nb_players - 1])

\* The two boundary tests of equilibrium_n_players.
BoundaryFails_n_players(R, X, c) ==
    LET nb_players == len(X)
        delta == delta_distance(c)
    IN  \/ X[0] = X[1] /\ (Lt(X[0], R[1]) \/ Gt(X[0], Add(R[0], delta)))
        \/ X[nb_players - 2] = X[nb_players - 1]
           /\ (\/ Lt(X[nb_players - 1], Sub(R[nb_players - 1], delta))
               \/ Lt(R[nb_players - 2], X[nb_players - 1]))

\* Every comparison "alt > payoff" equilibrium_n_players makes when none of
\* them returns early.
Deviations_n_players(R, X, c) ==
    LET n == len(X)
        p1 == Sub(Div(Add(X[0], X[1]), Num(2)), gamma(c, X[0], R[0]))
        p12(r) == Sub(Div(Add(X[0], X[2]), Num(4)), gamma(c, X[0], R[r]))
        pn == Sub(Sub(One, Div(Add(X[n - 1], X[n - 2]), Num(2))),
                  gamma(c, X[n - 1], R[n - 1]))
        pnn(r) == Sub(Sub(Half, Div(Add(X[n - 1], X[n - 3]), Num(4))),
                      gamma(c, X[n - 1], R[r]))
        right(r) == Sub(Sub(One, X[n - 1]), gamma(c, X[n - 1], R[r]))
        left(r) == Sub(X[0], gamma(c, X[0], R[r]))
        rightgap(j, r) == Sub(Div(Sub(X[j + 1], X[j]), Num(2)), gamma(c, X[j], R[r]))
        leftgap(j, r) == Sub(Div(Sub(X[j], X[j - 1]), Num(2)), gamma(c, X[j], R[r]))
    IN  (IF X[0] # X[1]
         THEN {Deviation(0, "right_of_n", n - 1, right(0), p1)}
              \cup {Deviation(0, "right_gap", j, rightgap(j, 0), p1) :
                        j \in {k \in 1 .. n - 2 : X[k] # X[k + 1]}}
         ELSE UNION { {Deviation(r, "right_of_n", n - 1, right(r), p12(r))}
                      \cup {Deviation(r, "right_gap", j, rightgap(j, r), p12(r)) :
                                j \in {k \in 2 .. n - 2 : X[k] # X[k + 1]}}
                      : r \in 0 .. 1 })
        \cup
        (IF X[n - 1] # X[n - 2]
         THEN {Deviation(n - 1, "left_of_1", 0, left(n - 1), pn)}
              \cup {Deviation(n - 1, "left_gap", j, leftgap(j, n - 1), pn) :
                        j \in {k \in 1 .. n - 2 : X[k] # X[k - 1]}}
         ELSE UNION { {Deviation(r, "left_of_1", 0, left(r), pnn(r))}
                      \cup {Deviation(r, "left_gap", j, leftgap(j, r), pnn(r)) :
                                j \in {k \in 1 .. n - 3 : X[k] # X[k - 1]}}
                      : r \in n - 2 .. n - 1 })
        \cup
        UNION { LET payoff == Div(Sub(X[p + 1], X[p - 1]), Num(2))
                IN  {Deviation(p, "left_of_1", 0, left(p), payoff),
                     Deviation(p, "right_of_n", n - 1, right(p), payoff)}
                    \cup {Deviation(p, "left_gap", j, leftgap(j, p), payoff) :
                              j \in {k \in 1 .. p - 1 : X[k] # X[k - 1]}}
                    \cup {Deviation(p, "right_gap", j, rightgap(j, p), payoff) :
                              j \in {k \in p + 1 .. n - 2 : X[k] # X[k + 1]}}
                : p \in {q \in 1 .. n - 2 : ~(X[q - 1] = X[q] \/ X[q] = X[q + 1])} }

\* Variant: only the deviations of the two peripheral players are tested.
verdict_n_players_peripheral(R, c) ==
    LET X == Eq_candidate_n_players(R, c)
    IN  IF BoundaryFails_n_players(R, X, c) THEN "No Eq"
        ELSE IF \E d \in Deviations_n_players(R, X, c) :
                    d.player \in {0, len(X) - 1} /\ Gt(d.alt, d.payoff)
        THEN "No Eq"
        ELSE "Eq"

\* equilibrium_n_players on the sorted profile.
verdict_n_players(R, c) ==
    LET X == Eq_candidate_n_players(R, c)
    IN  IF BoundaryFails_n_players(R, X, c) THEN "No Eq"
        ELSE IF \E d \in Deviations_n_players(R, X, c) : Gt(d.alt, d.payoff)
        THEN "No Eq"
        ELSE "Eq"

equilibrium_n_players(R, c) == verdict_n_players(sorted(R), c)

\* ------------------------------------------------------------------------
\* The inputs.

\* { k / den : k \in 0 .. den }, the reputations a draw can give.
Grid(den) == { Rat(k, den) : k \in 0 .. den }

\* The strictly positive cost coefficients.
Costs == { Rat(2 ^ k, 4) : k \in 0 .. MaxCostExp }

\* The arguments delta_distance is tried on: c > 0, c = 0 and c < 0.
AnyCosts == Costs \cup {Zero} \cup { Sub(Zero, k) : k \in Costs }

\* R is in ascending order.
IsSorted(L) == \A i \in DOMAIN L : \A j \in DOMAIN L : i < j => Le(L[i], L[j])

\* The reputation profiles of n players that are drawn.
Profiles(n) ==
    IF n <= 4
    THEN [0 .. n - 1 -> Grid(GridDen)]
    ELSE { r \in [0 .. n - 1 -> Grid(GridDen)] : IsSorted(r) }
         \cup [0 .. n - 1 -> Grid(GridDenN)]

\* ------------------------------------------------------------------------
\* State: one evaluation at a time. A profile R and a cost c1 are drawn (the
\* caller's list and arguments), one function of the repository is called on
\* them, and the call returns.

VARIABLES
    pc,     \* "idle", "drawn" (arguments chosen) or "done" (the call returned)
    fn,     \* the function called
    R,      \* the caller's reputation list
    c1,     \* the cost coefficient c (c1 of the asymmetric verifier)
    c2,     \* the second cost coefficient of the asymmetric verifier
    Rs,     \* the callee's local R after R = sorted(R)
    X,      \* the callee's local candidate X
    ret     \* the value returned, or the exception raised

vars == << pc, fn, R, c1, c2, Rs, X, ret >>

Init ==
    /\ pc = "idle"
    /\ fn = "none"
    /\ R = NoList
    /\ c1 = One
    /\ c2 = One
    /\ Rs = NoList
    /\ X = NoList
    /\ ret = NoRet

\* R = [random.random() for p in range(nb_players)], with the cost c the
\* caller passes on.
Draw ==
    /\ pc = "idle"
    /\ \E n \in 2 .. MaxPlayers : \E r \in Profiles(n) : R' = r
    /\ \E c \in Costs : c1' = c /\ c2' = c
    /\ pc' = "drawn"
    /\ UNCHANGED << fn, Rs, X, ret >>

Call_delta_distance ==
    /\ pc = "idle"
    /\ \E c \in AnyCosts :
           /\ c1' = c
           /\ c2' = c
           /\ ret' = delta_distance_call(c)
    /\ fn' = "delta_distance"
    /\ pc' = "done"
    /\ UNCHANGED << R, Rs, X >>

Call_equilibrium_2_players ==
    /\ pc = "drawn"
    /\ len(R) = 2
    /\ fn' = "equilibrium_2_players"
    /\ Rs' = sorted(R)
    /\ X' = X_2_players(sorted(R), c1)
    /\ ret' = propagate(c1, StrRet(equilibrium_2_players(R, c1)))
    /\ R' = sorted_argument(R)
    /\ pc' = "done"
    /\ UNCHANGED << c1, c2 >>

Call_equilibrium_2_players_asym ==
    /\ pc = "drawn"
    /\ len(R) = 2
    /\ \E c \in Costs :
           /\ c2' = c
           /\ X' = X_2_players_asym(sorted(R), c1, c)
           /\ ret' = propagate(c1, propagate(c,
                          StrRet(equilibrium_2_players_asym(R, c1, c))))
    /\ fn' = "equilibrium_2_players_asym"
    /\ Rs' = sorted(R)
    /\ R' = sorted_argument(R)
    /\ pc' = "done"
    /\ UNCHANGED c1

Call_Eq_candidate_3_players ==
    /\ pc = "drawn"
    /\ len(R) = 3
    /\ IsSorted(R)
    /\ fn' = "Eq_candidate_3_players"
    /\ ret' = propagate(c1, Eq_candidate_3_players(R, c1))
    /\ X' = Eq_candidate_3_players(R, c1).list
    /\ pc' = "done"
    /\ UNCHANGED << R, c1, c2, Rs >>

Call_equilibrium_3_players ==
    /\ pc = "drawn"
    /\ len(R) = 3
    /\ fn' = "equilibrium_3_players"
    /\ Rs' = sorted(R)
    /\ X' = Eq_candidate_3_players(sorted(R), c1).list
    /\ ret' = propagate(c1, StrRet(equilibrium_3_players(R, c1)))
    /\ R' = sorted_argument(R)
    /\ pc' = "done"
    /\ UNCHANGED << c1, c2 >>

Call_Eq_candidate_4_players ==
    /\ pc = "drawn"
    /\ len(R) = 4
    /\ IsSorted(R)
    /\ fn' = "Eq_candidate_4_players"
    /\ ret' = propagate(c1, ListRet(Eq_candidate_4_players(R, c1)))
    /\ X' = Eq_candidate_4_players(R, c1)
    /\ pc' = "done"
    /\ UNCHANGED << R, c1, c2, Rs >>

Call_equilibrium_4_players ==
    /\ pc = "drawn"
    /\ len(R) = 4
    /\ fn' = "equilibrium_4_players"
    /\ Rs' = sorted(R)
    /\ X' = Eq_candidate_4_players(sorted(R), c1)
    /\ ret' = propagate(c1, StrRet(equilibrium_4_players(R, c1)))
    /\ R' = sorted_argument(R)
    /\ pc' = "done"
    /\ UNCHANGED << c1, c2 >>

Call_Eq_candidate_n_players ==
    /\ pc = "drawn"
    /\ len(R) >= 5
    /\ IsSorted(R)
    /\ fn' = "Eq_candidate_n_players"
    /\ ret' = propagate(c1, ListRet(Eq_candidate_n_players(R, c1)))
    /\ X' = Eq_candidate_n_players(R, c1)
    /\ pc' = "done"
    /\ UNCHANGED << R, c1, c2, Rs >>

Call_equilibrium_n_players ==
    /\ pc = "drawn"
    /\ len(R) >= 5
    /\ fn' = "equilibrium_n_players"
    /\ Rs' = sorted(R)
    /\ X' = Eq_candidate_n_players(sorted(R), c1)
    /\ ret' = propagate(c1, StrRet(equilibrium_n_players(R, c1)))
    /\ R' = sorted_argument(R)
    /\ pc' = "done"
    /\ UNCHANGED << c1, c2 >>

\* The call is over: its locals and its result are dropped.
Return ==
    /\ pc = "done"
    /\ pc' = "idle"
    /\ fn' = "none"
    /\ R' = NoList
    /\ c1' = One
    /\ c2' = One
    /\ Rs' = NoList
    /\ X' = NoList
    /\ ret' = NoRet

Next ==
    \/ Draw
    \/ Call_delta_distance
    \/ Call_equilibrium_2_players
    \/ Call_equilibrium_2_players_asym
    \/ Call_Eq_candidate_3_players
    \/ Call_equilibrium_3_players
    \/ Call_Eq_candidate_4_players
    \/ Call_equilibrium_4_players
    \/ Call_Eq_candidate_n_players
    \/ Call_equilibrium_n_players
    \/ Return

Spec == Init /\ [][Next]_vars

\* ------------------------------------------------------------------------
\* Properties.

Verifiers ==
    {"equilibrium_2_players", "equilibrium_3_players",
     "equilibrium_4_players", "equilibrium_n_players"}

\* The verdict of the symmetric verifier named f on the list L with cost c.
Verdict(f, L, c) ==
    IF f = "equilibrium_2_players" THEN equilibrium_2_players(L, c)
    ELSE IF f = "equilibrium_3_players" THEN equilibrium_3_players(L, c)
    ELSE IF f = "equilibrium_4_players" THEN equilibrium_4_players(L, c)
    ELSE equilibrium_n_players(L, c)

\* The list L reordered by the permutation p: [L[p[0]], ..., L[p[n-1]]].
Permuted(L, p) == [i \in DOMAIN L |-> L[p[i]]]

\* Three permutations of 0 .. n-1 that generate all of them: the exchange of
\* the first two places, the rotation by one place, and (redundantly) the
\* reversal.
Shuffles(n) ==
    { [i \in 0 .. n - 1 |-> IF i = 0 THEN 1 ELSE IF i = 1 THEN 0 ELSE i],
      [i \in 0 .. n - 1 |-> (i + 1) % n],
      [i \in 0 .. n - 1 |-> n - 1 - i] }

\* C1: the verdict of each verifier is invariant under permuting R. The
\* verdict returned on R is the verdict on R with its first two elements
\* exchanged, on R rotated and on R reversed; as the profiles of 2, 3 and 4
\* players (and the coarse profiles of the general game) are drawn in every
\* order, the verdict is then the same on all the permutations of a profile.
C1_PermutationInvariant ==
    (pc = "done" /\ fn \in Verifiers) =>
        \A p \in Shuffles(len(R)) : Verdict(fn, Permuted(R, p), c1) = ret.str

\* C1 witness: a verifier of three or more players returned "Eq" on a list
\* that is not in ascending order.
C1_Witness ==
    /\ pc = "done"
    /\ fn \in Verifiers
    /\ len(R) >= 3
    /\ ~IsSorted(R)
    /\ ret.str = "Eq"

Builders ==
    {"Eq_candidate_3_players", "Eq_candidate_4_players", "Eq_candidate_n_players"}

\* C2: the candidate a builder returns for a sorted R is monotonically
\* non-decreasing: X[i] <= X[i+1] for 0 <= i < n-1.
C2_CandidateMonotone ==
    (pc = "done" /\ fn \in Builders /\ ret.type = "list") =>
        \A i \in 0 .. len(ret.list) - 2 : Le(ret.list[i], ret.list[i + 1])

\* C2 witness: the general builder returned a candidate whose two rightmost
\* players are clustered, above an interior player located at a positive
\* reputation.
C2_Witness ==
    /\ pc = "done"
    /\ fn = "Eq_candidate_n_players"
    /\ ret.list[len(R) - 2] = ret.list[len(R) - 1]
    /\ Gt(ret.list[len(R) - 3], Zero)
    /\ Lt(ret.list[len(R) - 3], ret.list[len(R) - 2])

\* C3 as stated: every call of a builder returns a list of exactly n
\* numbers.
C3_AlwaysCandidate ==
    (pc = "done" /\ fn \in Builders) =>
        ret.type = "list" /\ len(ret.list) = len(R)

\* Both ends of a 3-player profile are too close to the middle player:
\* R[0] + delta >= R[1] and R[2] - delta <= R[1].
BothEndsClose_3_players ==
    /\ Ge(Add(R[0], delta_distance(c1)), R[1])
    /\ Le(Sub(R[2], delta_distance(c1)), R[1])

\* C3 amended: Eq_candidate_4_players and Eq_candidate_n_players always
\* return a list of exactly n numbers; Eq_candidate_3_players returns a list
\* of 3 numbers unless R[0] + delta >= R[1] and R[2] - delta <= R[1], in
\* which case (all reputations equal, for one) it returns the string "No Eq".
C3_CandidateOrNoEq ==
    (pc = "done" /\ fn \in Builders) =>
        IF fn = "Eq_candidate_3_players" /\ BothEndsClose_3_players
        THEN ret = StrRet("No Eq")
        ELSE ret.type = "list" /\ len(ret.list) = len(R)

\* C3 witness: Eq_candidate_3_players was called on R = [0.5, 0.5, 0.5] and
\* returned "No Eq".
C3_Witness ==
    /\ pc = "done"
    /\ fn = "Eq_candidate_3_players"
    /\ R = List3(Half, Half, Half)
    /\ ret = StrRet("No Eq")

\* The call built a candidate and compared deviations on it: the separated
\* branch of the two 2-player verifiers, a 3-player call whose builder
\* returned a list, and every 4-player and general call.
CandidateVerified ==
    /\ pc = "done"
    /\ \/ fn = "equilibrium_2_players"
          /\ ~Lt(Sub(Rs[1], Rs[0]), Mul(Num(2), delta_distance(c1)))
       \/ fn = "equilibrium_2_players_asym"
          /\ ~Lt(Sub(Rs[1], Rs[0]), Add(delta_distance(c1), delta_distance(c2)))
       \/ fn = "equilibrium_3_players" /\ len(X) = 3
       \/ fn \in {"equilibrium_4_players", "equilibrium_n_players"}

\* The boundary tests of the call reject the candidate.
BoundaryFails ==
    IF fn = "equilibrium_3_players" THEN BoundaryFails_3_players(Rs, X, c1)
    ELSE IF fn = "equilibrium_4_players" THEN BoundaryFails_4_players(Rs, X, c1)
    ELSE IF fn = "equilibrium_n_players" THEN BoundaryFails_n_players(Rs, X, c1)
    ELSE FALSE

\* The deviations the call enumerates on its candidate.
Deviations ==
    IF fn = "equilibrium_2_players" THEN Deviations_2_players(Rs, X, c1)
    ELSE IF fn = "equilibrium_2_players_asym"
    THEN Deviations_2_players_asym(Rs, X, c1, c2)
    ELSE IF fn = "equilibrium_3_players" THEN Deviations_3_players(Rs, X, c1)
    ELSE IF fn = "equilibrium_4_players" THEN Deviations_4_players(Rs, X, c1)
    ELSE Deviations_n_players(Rs, X, c1)

\* C4: ties are not profitable deviations, in every verifier: if boundary
\* consistency holds and every enumerated deviation payoff is <= the current
\* payoff of the deviating player, the verdict is "Eq".
C4_TiesNotProfitable ==
    (CandidateVerified /\ ~BoundaryFails
     /\ \A d \in Deviations : Le(d.alt, d.payoff)) =>
        ret.str = "Eq"

\* C5: every entry of a candidate lies in [0,1] and the candidate has the
\* length of R: the list a builder returns, and the separated candidate
\* [R[0] + delta, R[1] - delta] of equilibrium_2_players.
C5_CandidateInUnitInterval ==
    /\ (pc = "done" /\ fn \in Builders /\ ret.type = "list") =>
           /\ len(ret.list) = len(R)
           /\ \A i \in DOMAIN ret.list : Le(Zero, ret.list[i]) /\ Le(ret.list[i], One)
    /\ (CandidateVerified /\ fn = "equilibrium_2_players") =>
           /\ len(X) = len(R)
           /\ \A i \in DOMAIN X : Le(Zero, X[i]) /\ Le(X[i], One)

\* C5 witness: the general builder returned a candidate with both ends
\* clustered.
C5_Witness ==
    /\ pc = "done"
    /\ fn = "Eq_candidate_n_players"
    /\ ret.list[0] = ret.list[1]
    /\ ret.list[len(R) - 2] = ret.list[len(R) - 1]
    /\ Gt(ret.list[0], Zero)

\* The call of equilibrium_2_players took the clustering branch:
\* R[1] - R[0] < 2 * delta on the sorted profile.
Clustering_2_players ==
    /\ pc = "done"
    /\ fn = "equilibrium_2_players"
    /\ Lt(Sub(Rs[1], Rs[0]), Mul(Num(2), delta_distance(c1)))

\* C6: in the clustering branch equilibrium_2_players returns "Eq" if and
\* only if R[1] - delta < 1/2 < R[0] + delta, and "No Eq" otherwise.
C6_ClusteringVerdict ==
    Clustering_2_players =>
        IF /\ Lt(Sub(Rs[1], delta_distance(c1)), Half)
           /\ Lt(Half, Add(Rs[0], delta_distance(c1)))
        THEN ret = StrRet("Eq")
        ELSE ret = StrRet("No Eq")

\* C6 witness: R = [0.5, 0.5], c = 1 took the clustering branch and the
\* verdict is "Eq".
C6_Witness ==
    /\ Clustering_2_players
    /\ R = List2(Half, Half)
    /\ c1 = One
    /\ ret = StrRet("Eq")

\* C7: on R = [0, 1], for every c of the separated branch (2 * delta <= 1),
\* the candidate is [delta, 1 - delta] and equilibrium_2_players returns "Eq".
C7_EndsSeparated ==
    (/\ pc = "done"
     /\ fn = "equilibrium_2_players"
     /\ Rs = List2(Zero, One)
     /\ Le(Mul(Num(2), delta_distance(c1)), One)) =>
        /\ X = List2(delta_distance(c1), Sub(One, delta_distance(c1)))
        /\ ret = StrRet("Eq")

\* C8: delta_distance(c) is exactly 1 / (4 * c) for c > 0, is strictly
\* positive, and is strictly decreasing in c.
C8_DeltaExactDecreasing ==
    (pc = "done" /\ fn = "delta_distance" /\ Gt(c1, Zero)) =>
        /\ ret.type = "float"
        /\ Mul(Mul(Num(4), c1), ret.num) = One
        /\ Gt(ret.num, Zero)
        /\ \A c \in Costs :
               Lt(c1, c) =>
                   /\ delta_distance_call(c).type = "float"
                   /\ Gt(ret.num, delta_distance_call(c).num)

\* C8 witness: delta_distance(1) returned 1/4.
C8_Witness ==
    /\ pc = "done"
    /\ fn = "delta_distance"
    /\ c1 = One
    /\ ret = FloatRet(Rat(1, 4))

\* C9 as stated: delta_distance(c) fails for every c <= 0.
C9_FailsWhenNotPositive ==
    (pc = "done" /\ fn = "delta_distance" /\ Le(c1, Zero)) =>
        ret.type = "raise"

\* C9 amended: delta_distance(c) fails (the division by zero raises) for
\* c = 0 only; for every c < 0 it returns the negative value 1 / (4 * c).
C9_FailsAtZeroOnly ==
    (pc = "done" /\ fn = "delta_distance" /\ Le(c1, Zero)) =>
        IF c1 = Zero
        THEN ret = Raise("ZeroDivisionError")
        ELSE /\ ret.type = "float"
             /\ Mul(Mul(Num(4), c1), ret.num) = One
             /\ Lt(ret.num, Zero)

\* C9 witness: delta_distance was called with c < 0 and returned a value.
C9_Witness ==
    /\ pc = "done"
    /\ fn = "delta_distance"
    /\ Lt(c1, Zero)
    /\ ret.type = "float"

\* C10: equilibrium_2_players_asym(R, c, c) returns the verdict of
\* equilibrium_2_players(R, c).
C10_AsymSameCosts ==
    (pc = "done" /\ fn = "equilibrium_2_players_asym" /\ c1 = c2) =>
        ret = StrRet(equilibrium_2_players(R, c1))

\* C10 witness: the asymmetric verifier was called with c1 = c2 on a
\* separated profile and returned "Eq".
C10_Witness ==
    /\ CandidateVerified
    /\ fn = "equilibrium_2_players_asym"
    /\ c1 = c2
    /\ ret = StrRet("Eq")

\* C11: in equilibrium_2_players_asym each cost stays attached to its player.
\* Exchanging the two players, reputations and costs together, leaves the
\* verdict unchanged: the verdict returned on (R, c1, c2) is the verdict on
\* ([R[1], R[0]], c2, c1).
C11_RelabelAsym ==
    (pc = "done" /\ fn = "equilibrium_2_players_asym") =>
        ret = StrRet(equilibrium_2_players_asym(List2(R[1], R[0]), c2, c1))

AllVerifiers == Verifiers \cup {"equilibrium_2_players_asym"}

\* C12: every evaluation ends with a verdict. For every valid input, the
\* ones with delta_distance(c) > 1/2 included, each verifier raises no
\* exception and returns the string "Eq" or the string "No Eq".
C12_AlwaysVerdict ==
    (pc = "done" /\ fn \in AllVerifiers) =>
        ret \in {StrRet("Eq"), StrRet("No Eq")}

C12_Witness ==
    /\ pc = "done"
    /\ fn = "equilibrium_n_players"
    /\ Gt(delta_distance(c1), Half)
    /\ ret = StrRet("No Eq")

C14_BoundaryRule ==
    (pc = "done" /\ fn = "Eq_candidate_n_players") =>
        LET n == len(R)
            delta == delta_distance(c1)
            Y == ret.list
        IN  /\ ret.type = "list"
            /\ IF Lt(Add(R[0], delta), R[1])
               THEN Y[0] = Add(R[0], delta) /\ Y[0] # Y[1]
               ELSE Y[0] = Div(R[2], Num(3)) /\ Y[1] = Div(R[2], Num(3))
            /\ IF Gt(Sub(R[n - 1], delta), R[n - 2])
               THEN Y[n - 1] = Sub(R[n - 1], delta) /\ Y[n - 2] # Y[n - 1]
               ELSE /\ Y[n - 1] = Div(Add(Num(2), R[n - 3]), Num(3))
                    /\ Y[n - 2] = Div(Add(Num(2), R[n - 3]), Num(3))

\* C14 witness: the general builder clustered the two leftmost players at a
\* positive location and left the rightmost player alone.
C14_Witness ==
    /\ pc = "done"
    /\ fn = "Eq_candidate_n_players"
    /\ Ge(Add(R[0], delta_distance(c1)), R[1])
    /\ Gt(Sub(R[len(R) - 1], delta_distance(c1)), R[len(R) - 2])
    /\ ret.list[0] = ret.list[1]
    /\ Gt(ret.list[0], Zero)
    /\ ret.list[len(R) - 2] # ret.list[len(R) - 1]

\* C15: in every candidate a builder returns, an interior player that is
\* not in a boundary cluster is located at its reputation, X[i] = R[i], and
\* an interior player of a boundary cluster has the location of the cluster;
\* in Eq_candidate_n_players that location is R[2] / 3 on the left and
\* (2 + R[n-3]) / 3 on the right, also when the test X[i] == 0 applies.
C15_InteriorLocations ==
    (pc = "done" /\ fn \in Builders /\ ret.type = "list") =>
        LET n == len(R)
            delta == delta_distance(c1)
            Y == ret.list
            left(i) == i = 1 /\ Ge(Add(R[0], delta), R[1])
            right(i) == i = n - 2 /\ Le(Sub(R[n - 1], delta), R[n - 2])
        IN  \A i \in 1 .. n - 2 :
                /\ left(i) => Y[i] = Y[0]
                /\ right(i) => Y[i] = Y[n - 1]
                /\ (~left(i) /\ ~right(i)) => Y[i] = R[i]
                /\ (fn = "Eq_candidate_n_players" /\ left(i)) =>
                       Y[i] = Div(R[2], Num(3))
                /\ (fn = "Eq_candidate_n_players" /\ right(i)) =>
                       Y[i] = Div(Add(Num(2), R[n - 3]), Num(3))

\* C15 witness: the general builder clustered the two leftmost players at
\* location 0, where the test X[i] == 0 applies to the second player.
C15_Witness ==
    /\ pc = "done"
    /\ fn = "Eq_candidate_n_players"
    /\ Ge(Add(R[0], delta_distance(c1)), R[1])
    /\ ret.list[1] = Zero
    /\ ret.list[len(R) - 1] # Zero

\* The verifiers of three players and more.
Verifiers_3_up ==
    {"equilibrium_3_players", "equilibrium_4_players", "equilibrium_n_players"}

\* C16 as stated: a clustered left pair whose location is outside
\* [R[0], R[0] + delta] or does not satisfy R[1] < X[0] gives "No Eq", and so
\* does a clustered right pair whose location is outside
\* [R[n-1] - delta, R[n-1]] or does not satisfy X[n-1] < R[n-2].
C16_BoundaryStrict ==
    (pc = "done" /\ fn \in Verifiers_3_up /\ X # NoList) =>
        LET n == len(X)
            delta == delta_distance(c1)
        IN  /\ (X[0] = X[1] /\ (\/ Lt(X[0], Rs[0])
                                \/ Gt(X[0], Add(Rs[0], delta))
                                \/ ~Lt(Rs[1], X[0])))
                   => ret = StrRet("No Eq")
            /\ (X[n - 2] = X[n - 1] /\ (\/ Lt(X[n - 1], Sub(Rs[n - 1], delta))
                                        \/ Gt(X[n - 1], Rs[n - 1])
                                        \/ ~Lt(X[n - 1], Rs[n - 2])))
                   => ret = StrRet("No Eq")

\* C16 amended: a clustered left pair whose location is outside
\* [R[1], R[0] + delta] gives "No Eq", and so does a clustered right pair
\* whose location is outside [R[n-1] - delta, R[n-2]]; a location equal to
\* R[1], or to R[n-2], is not rejected by this test.
C16_BoundaryConsistency ==
    (pc = "done" /\ fn \in Verifiers_3_up /\ X # NoList) =>
        LET n == len(X)
            delta == delta_distance(c1)
        IN  /\ (X[0] = X[1] /\ (\/ Lt(X[0], Rs[1])
                                \/ Gt(X[0], Add(Rs[0], delta))))
                   => ret = StrRet("No Eq")
            /\ (X[n - 2] = X[n - 1] /\ (\/ Lt(X[n - 1], Sub(Rs[n - 1], delta))
                                        \/ Gt(X[n - 1], Rs[n - 2])))
                   => ret = StrRet("No Eq")

\* C16 witness: the two leftmost players are clustered beyond
\* R[0] + delta, the right end passes its test, and the verdict is "No Eq".
C16_Witness ==
    /\ pc = "done"
    /\ fn = "equilibrium_n_players"
    /\ X[0] = X[1]
    /\ Gt(X[0], Add(Rs[0], delta_distance(c1)))
    /\ ~Lt(X[0], Rs[1])
    /\ X[len(X) - 2] # X[len(X) - 1]
    /\ ret = StrRet("No Eq")

\* The call is a verifier of three players or more that returned "Eq".
VerdictEq_3_up ==
    pc = "done" /\ fn \in Verifiers_3_up /\ ret = StrRet("Eq")

\* The cost c * (x - r)^2 of the player of reputation r located at x, with
\* the cost coefficient of the call.
Cost(x, r) == Mul(c1, Sq(Sub(x, r)))

\* C17: peripheral deviations. When the verdict is "Eq" and the leftmost
\* player is alone (X[0] # X[1]), its payoff (X[0] + X[1]) / 2 - c (X[0] - R[0])^2
\* is at least (1 - X[n-1]) - c (X[n-1] - R[0])^2 and at least
\* (X[j+1] - X[j]) / 2 - c (X[j] - R[0])^2 for every gap X[j] < X[j+1],
\* 1 <= j <= n-2; the mirrored statement holds for the rightmost player when
\* X[n-1] # X[n-2]. Equivalently, an alternative strictly above the payoff
\* gives "No Eq".
C17_PeripheralDeviations ==
    VerdictEq_3_up =>
        LET n == len(X)
            payoff_1 == Sub(Div(Add(X[0], X[1]), Num(2)), Cost(X[0], Rs[0]))
            payoff_n == Sub(Sub(One, Div(Add(X[n - 1], X[n - 2]), Num(2))),
                            Cost(X[n - 1], Rs[n - 1]))
        IN  /\ X[0] # X[1] =>
                /\ Ge(payoff_1, Sub(Sub(One, X[n - 1]), Cost(X[n - 1], Rs[0])))
                /\ \A j \in 1 .. n - 2 :
                       Lt(X[j], X[j + 1]) =>
                           Ge(payoff_1, Sub(Div(Sub(X[j + 1], X[j]), Num(2)),
                                            Cost(X[j], Rs[0])))
            /\ X[n - 1] # X[n - 2] =>
                /\ Ge(payoff_n, Sub(X[0], Cost(X[0], Rs[n - 1])))
                /\ \A j \in 1 .. n - 2 :
                       Lt(X[j - 1], X[j]) =>
                           Ge(payoff_n, Sub(Div(Sub(X[j], X[j - 1]), Num(2)),
                                            Cost(X[j], Rs[n - 1])))

\* C17 witness: the general verifier returned "Eq" on a candidate whose two
\* peripheral players are alone and whose interior players are at distinct
\* locations.
C17_Witness ==
    /\ VerdictEq_3_up
    /\ fn = "equilibrium_n_players"
    /\ \A j \in 0 .. len(X) - 2 : Lt(X[j], X[j + 1])

\* C19: interior unpaired deviations. When the verdict is "Eq", every
\* interior player p with X[p-1] # X[p] # X[p+1] has a payoff
\* (X[p+1] - X[p-1]) / 2 that is at least X[0] - c (X[0] - R[p])^2, at least
\* (1 - X[n-1]) - c (X[n-1] - R[p])^2, at least
\* (X[j] - X[j-1]) / 2 - c (X[j] - R[p])^2 for every non-empty gap with
\* 1 <= j < p, and at least (X[j+1] - X[j]) / 2 - c (X[j] - R[p])^2 for every
\* non-empty gap with p < j <= n-2.
C19_InteriorDeviations ==
    VerdictEq_3_up =>
        LET n == len(X)
        IN  \A p \in 1 .. n - 2 :
                (X[p - 1] # X[p] /\ X[p] # X[p + 1]) =>
                    LET payoff == Div(Sub(X[p + 1], X[p - 1]), Num(2))
                    IN  /\ Ge(payoff, Sub(X[0], Cost(X[0], Rs[p])))
                        /\ Ge(payoff, Sub(Sub(One, X[n - 1]), Cost(X[n - 1], Rs[p])))
                        /\ \A j \in 1 .. p - 1 :
                               Lt(X[j - 1], X[j]) =>
                                   Ge(payoff, Sub(Div(Sub(X[j], X[j - 1]), Num(2)),
                                                  Cost(X[j], Rs[p])))
                        /\ \A j \in p + 1 .. n - 2 :
                               Lt(X[j], X[j + 1]) =>
                                   Ge(payoff, Sub(Div(Sub(X[j + 1], X[j]), Num(2)),
                                                  Cost(X[j], Rs[p])))

\* C19 witness: the general verifier returned "Eq" on a candidate with an
\* unpaired interior player that has a non-empty gap on each side beyond its
\* neighbours.
C19_Witness ==
    /\ VerdictEq_3_up
    /\ fn = "equilibrium_n_players"
    /\ X[1] # X[2]
    /\ X[2] # X[3]
    /\ Lt(X[0], X[1])
    /\ Lt(X[3], X[4])

\* The payoff of each of the two players located at X[i] = X[i+1], m being
\* the one of reputation R[m]: half of the market between the midpoints to
\* the neighbours X[i-1] and X[i+2] (or the ends 0 and 1), less its cost.
PairPayoff(i, m) ==
    LET n == len(X)
    IN  IF i = 0
        THEN Sub(Div(Add(X[0], X[2]), Num(4)), Cost(X[0], Rs[m]))
        ELSE IF i = n - 2
        THEN Sub(Sub(Half, Div(Add(X[n - 1], X[n - 3]), Num(4))),
                 Cost(X[n - 1], Rs[m]))
        ELSE Sub(Div(Sub(X[i + 2], X[i - 1]), Num(4)), Cost(X[i], Rs[m]))

\* Neither player of the pair at X[i] = X[i+1] strictly gains by moving to
\* the left of X[0] or to the right of X[n-1].
PairKeepsEnds(i) ==
    \A m \in {i, i + 1} :
        /\ Ge(PairPayoff(i, m), Sub(X[0], Cost(X[0], Rs[m])))
        /\ Ge(PairPayoff(i, m),
              Sub(Sub(One, X[len(X) - 1]), Cost(X[len(X) - 1], Rs[m])))

\* C18 as stated: when the verdict is "Eq", for every i with X[i] = X[i+1],
\* boundary or interior, neither of the two players strictly gains by moving
\* to the left of X[0] or to the right of X[n-1].
C18_EveryPairChecked ==
    VerdictEq_3_up =>
        \A i \in 0 .. len(X) - 2 : X[i] = X[i + 1] => PairKeepsEnds(i)

\* The two leftmost players of the call cluster: R[0] + delta >= R[1].
LeftClusters == Ge(Add(R[0], delta_distance(c1)), R[1])

\* The two rightmost players of the call cluster: R[n-1] - delta <= R[n-2].
RightClusters == Le(Sub(R[len(R) - 1], delta_distance(c1)), R[len(R) - 2])

\* C20 as stated: the builders of 3 and of 4 players apply the rules of the
\* general builder. A clustered left pair is located at R[2] / 3, a
\* clustered right pair at (2 + R[n-3]) / 3, and Eq_candidate_4_players(R, c)
\* equals Eq_candidate_n_players(R, c) for every sorted R of 4 elements.
C20_UnrolledSameRules ==
    (/\ pc = "done"
     /\ fn \in {"Eq_candidate_3_players", "Eq_candidate_4_players"}
     /\ ret.type = "list") =>
        LET n == len(R)
            Y == ret.list
        IN  /\ LeftClusters => Y[0] = Div(R[2], Num(3)) /\ Y[1] = Div(R[2], Num(3))
            /\ RightClusters =>
                   /\ Y[n - 2] = Div(Add(Num(2), R[n - 3]), Num(3))
                   /\ Y[n - 1] = Div(Add(Num(2), R[n - 3]), Num(3))
            /\ fn = "Eq_candidate_4_players" => Y = Eq_candidate_n_players(R, c1)

\* C20 amended: Eq_candidate_4_players(R, c) equals
\* Eq_candidate_n_players(R, c) on a sorted R of 4 elements unless both ends
\* cluster, and then it is [0.25, 0.25, 0.75, 0.75]; with one end clustered
\* the pair is at R[2] / 3 on the left, at (2 + R[1]) / 3 on the right.
\* Eq_candidate_3_players locates a clustered left pair at (R[2] - delta) / 3
\* and a clustered right pair at (R[0] + delta + 2) / 3. In each case the
\* left pair is at X[2] / 3 and the right pair at (2 + X[n-3]) / 3.
C20_UnrolledRules ==
    (/\ pc = "done"
     /\ fn \in {"Eq_candidate_3_players", "Eq_candidate_4_players"}
     /\ ret.type = "list") =>
        LET n == len(R)
            delta == delta_distance(c1)
            Y == ret.list
        IN  /\ LeftClusters => Y[0] = Div(Y[2], Num(3)) /\ Y[1] = Y[0]
            /\ RightClusters =>
                   Y[n - 1] = Div(Add(Num(2), Y[n - 3]), Num(3)) /\ Y[n - 2] = Y[n - 1]
            /\ (fn = "Eq_candidate_3_players" /\ LeftClusters) =>
                   Y[0] = Div(Sub(R[2], delta), Num(3))
            /\ (fn = "Eq_candidate_3_players" /\ RightClusters) =>
                   Y[2] = Div(Add(Add(R[0], delta), Num(2)), Num(3))
            /\ (fn = "Eq_candidate_4_players" /\ LeftClusters /\ ~RightClusters) =>
                   Y[0] = Div(R[2], Num(3))
            /\ (fn = "Eq_candidate_4_players" /\ RightClusters /\ ~LeftClusters) =>
                   Y[3] = Div(Add(Num(2), R[1]), Num(3))
            /\ (fn = "Eq_candidate_4_players" /\ LeftClusters /\ RightClusters) =>
                   Y = List4(Rat(1, 4), Rat(1, 4), Rat(3, 4), Rat(3, 4))
            /\ (fn = "Eq_candidate_4_players" /\ ~(LeftClusters /\ RightClusters)) =>
                   Y = Eq_candidate_n_players(R, c1)

\* C20 witness: Eq_candidate_4_players returned [0.25, 0.25, 0.75, 0.75] for
\* a profile with both ends clustered on which the general builder gives
\* another list.
C20_Witness ==
    /\ pc = "done"
    /\ fn = "Eq_candidate_4_players"
    /\ LeftClusters
    /\ RightClusters
    /\ ret.list[0] = Rat(1, 4)
    /\ ret.list # Eq_candidate_n_players(R, c1)

\* The reflection of the list L in the unit interval: [1 - r for r in L].
Mirror(L) == [i \in DOMAIN L |-> Sub(One, L[i])]

\* The list L in reverse order.
Reversed(L) == [i \in DOMAIN L |-> L[len(L) - 1 - i]]

\* The value the builder named f returns on the sorted list L with cost c.
Candidate(f, L, c) ==
    IF f = "Eq_candidate_3_players" THEN Eq_candidate_3_players(L, c)
    ELSE IF f = "Eq_candidate_4_players" THEN ListRet(Eq_candidate_4_players(L, c))
    ELSE ListRet(Eq_candidate_n_players(L, c))

verdict_4_players_all_checks(R_sorted, c) ==
    LET Y == Eq_candidate_4_players(R_sorted, c)
    IN  IF BoundaryFails_4_players(R_sorted, Y, c) THEN "No Eq"
        ELSE IF \E d \in Deviations_4_players(R_sorted, Y, c) : Gt(d.alt, d.payoff)
        THEN "No Eq"
        ELSE "Eq"

\* The call of equilibrium_4_players took its early return: the candidate
\* is [0.25, 0.25, 0.75, 0.75] and passed the two boundary tests.
EarlyReturn_4_players ==
    /\ pc = "done"
    /\ fn = "equilibrium_4_players"
    /\ X = List4(Rat(1, 4), Rat(1, 4), Rat(3, 4), Rat(3, 4))
    /\ ~BoundaryFails_4_players(Rs, X, c1)

\* C22: the early return of equilibrium_4_players is redundant. It is
\* taken only when both ends cluster (R[0] + delta >= R[1] and
\* R[3] - delta <= R[2] on the sorted profile), and the verdict of every
\* call is the verdict obtained with the return skipped and all the
\* remaining deviation checks run.
C22_EarlyReturnRedundant ==
    /\ EarlyReturn_4_players =>
           /\ Ge(Add(Rs[0], delta_distance(c1)), Rs[1])
           /\ Le(Sub(Rs[3], delta_distance(c1)), Rs[2])
           /\ ret = StrRet("Eq")
    /\ (pc = "done" /\ fn = "equilibrium_4_players") =>
           ret = StrRet(verdict_4_players_all_checks(Rs, c1))

\* C22 witness: the early return was taken on an unsorted profile whose
\* reputations are not all at the candidate locations.
C22_Witness ==
    /\ EarlyReturn_4_players
    /\ ~IsSorted(R)
    /\ Rs # X
    /\ ret = StrRet("Eq")

====
